---- MODULE Spec2Model ----
(***************************************************************************)
(* A model of open-data-pvnet's GFS pipeline (src/open_data_pvnet/nwp/     *)
(* gfs_dataset.py): open_gfs, handle_nan_values and GFSDataSampler.        *)
(*                                                                         *)
(* Times are minutes since 2023-01-01T00:00:00.  A Python string is a      *)
(* sequence, so the empty sequence is both None and "" (both falsy).       *)
(* A float cell is <<>> when it is NaN and <<v>> when it holds v.          *)
(* handle_nan_values is modelled on a latitude x longitude array: the      *)
(* init_time_utc, step and channel axes are collapsed to one position.     *)
(***************************************************************************)
EXTENDS Integers, Sequences, FiniteSets, TLC

VARIABLES
    source,          \* the zarr store handed to open_gfs
    opened,          \* what open_gfs returned or raised
    nanIn,           \* the DataArray bound to `dataset` in handle_nan_values
    nanCall,         \* the (method, fill_value) of the last call
    nanOut,          \* what handle_nan_values returned or raised
    nanPrev,         \* the previous call of the chain, once its result was rebound
    dataset,         \* GFSDataSampler.dataset (its axes)
    config,          \* GFSDataSampler.config.input_data.nwp.gfs
    pc,              \* "new" before GFSDataSampler.__init__, "ready" after
    raw_t0_times,    \* what find_valid_time_periods returned
    start_time,      \* __init__'s start_time argument
    end_time,        \* __init__'s end_time argument
    valid_t0_times,  \* GFSDataSampler.valid_t0_times
    warned,          \* whether __init__ logged its warning
    request,         \* the t0 of the last _get_sample call
    sample,          \* what the last _get_sample call returned or raised
    loader_len,      \* how many batches one iteration of the DataLoader yields
    num_batches,     \* process_and_save_batches' num_batches argument
    bpc,             \* where run_batch_samples / process_and_save_batches is
    verify_taken,    \* batches the verification pass took from its iterator
    yielded,         \* batches the saving loop's iterator has yielded
    batch_num,       \* iterations of the saving loop completed
    files,           \* the batch files in output_dir: name and batch saved
    pvlive,          \* what the PVLive service answers for each GSP id
    gpc,             \* where generate_combined_gsp.main is
    gsp_pos,         \* position of the loop in range(0, 319), from 1
    queried,         \* the GSP ids asked for so far, in order
    all_dataframes,  \* main's all_dataframes
    warnings,        \* GSP ids a "No data available" warning was logged for
    error_logged,    \* "No data retrieved for any GSP IDs" was logged
    zarr_store,      \* what to_zarr wrote, if it was called
    built,           \* the sampler's fields as its construction left them
    wpc,             \* per worker: where its sampler[idx] call is
    widx,            \* per worker: the idx of its call
    locals,          \* per call frame: _get_sample's sliced_data
    returned         \* the <<idx, result>> pairs the workers' calls gave

openVars == <<source, opened>>
nanVars == <<nanIn, nanCall, nanOut, nanPrev>>
samplerVars == <<dataset, config, pc, raw_t0_times, start_time, end_time,
                 valid_t0_times, warned, request, sample>>
batchVars == <<loader_len, num_batches, bpc, verify_taken, yielded, batch_num,
               files>>
gspVars == <<pvlive, gpc, gsp_pos, queried, all_dataframes, warnings,
             error_logged, zarr_store>>
workerVars == <<built, wpc, widx, locals, returned>>
vars == <<openVars, nanVars, samplerVars, batchVars, gspVars, workerVars>>

\* Python's None for a string argument (and the empty string, equally falsy).
None == <<>>

\* No call was made yet.
NotCalled == [status |-> "none"]

RECURSIVE SeqOfSet(_)
\* The ascending sequence of a finite set of integers.
SeqOfSet(S) ==
    IF S = {} THEN <<>>
    ELSE LET m == CHOOSE x \in S : \A y \in S : x <= y
         IN <<m>> \o SeqOfSet(S \ {m})

Range(s) == {s[i] : i \in 1..Len(s)}

\* Sequences over S without repetition, of at most n elements.
RECURSIVE DistinctSeqs(_, _)
DistinctSeqs(S, n) ==
    IF n = 0 THEN {<<>>}
    ELSE LET shorter == DistinctSeqs(S, n - 1)
         IN shorter \cup
            UNION {{Append(s, x) : x \in S \ Range(s)} :
                   s \in {t \in shorter : Len(t) = n - 1}}

(***************************************************************************)
(* open_gfs                                                                *)
(***************************************************************************)

\* The longest dimension tuple of a source store.
MaxSrcDims == 5

\* Dimension names a store's variables may carry.
DimNames == {"init_time", "init_time_utc", "step", "latitude", "longitude",
             "channel", "time"}

required_dims == <<"init_time_utc", "step", "channel", "latitude", "longitude">>

Raise(kind, what) == [status |-> "error", kind |-> kind, what |-> what]

Ok(value) == [status |-> "ok", value |-> value]

\* xr.Dataset.to_array(dim): the new dimension comes first; a dimension of
\* that name already there is a conflict.
to_array(dims, dim) ==
    IF dim \in Range(dims) THEN Raise("ValueError", dim)
    ELSE Ok(<<dim>> \o dims)

\* DataArray.rename({old: new}): in place in the tuple; new must be free.
rename(dims, old, new) ==
    IF new \in Range(dims) THEN Raise("ValueError", new)
    ELSE Ok([i \in 1..Len(dims) |-> IF dims[i] = old THEN new ELSE dims[i]])

\* transpose as if called with missing_dims="ignore": the dimensions the
\* array lacks are left out of the order, the others it has are dropped.
transpose_ignore_missing(dims, order) ==
    Ok(SelectSeq(order, LAMBDA d : d \in Range(dims)))

\* DataArray.transpose(*order) without an ellipsis: order must be a
\* permutation of the array's dimensions.
transpose(dims, order) ==
    IF Range(dims) # Range(order) THEN Raise("ValueError", order)
    ELSE Ok(order)

open_gfs(src) ==
    IF ~src.readable THEN Raise("OSError", src.dims)
    ELSE LET gfs_data == to_array(src.dims, "channel")
         IN IF gfs_data.status = "error" THEN gfs_data
            ELSE LET renamed ==
                         IF "init_time" \in Range(gfs_data.value)
                         THEN rename(gfs_data.value, "init_time", "init_time_utc")
                         ELSE gfs_data
                 IN IF renamed.status = "error" THEN renamed
                    ELSE transpose(renamed.value, required_dims)

Sources ==
    [readable : BOOLEAN,
     dims : DistinctSeqs(DimNames, MaxSrcDims)]

OpenGfs ==
    /\ opened.status = "none"
    /\ \E src \in Sources :
        /\ source' = src
        /\ opened' = open_gfs(src)
    /\ UNCHANGED <<nanVars, samplerVars, batchVars, gspVars,
                   workerVars>>

(***************************************************************************)
(* handle_nan_values                                                       *)
(***************************************************************************)

\* Latitude rows and longitude columns of the arrays handed in.
NLat == 2
NLon == 2

\* How many times a result is bound back to `dataset` and handled again.
MaxRebinds == 1

NaN == <<>>

isnull(cell) == cell = NaN

\* The values of the cells handed in, and the fill values tried (a float
\* argument may itself be NaN).
DataCells == {NaN, <<0>>}
FillValues == {NaN, <<0>>, <<1>>}
Methods == {"fill", "drop", "mean"}

DataArrays ==
    {[latitude |-> 1..NLat, longitude |-> 1..NLon, data |-> d] :
        d \in [(1..NLat) \X (1..NLon) -> DataCells]}

\* fillna with the mask inverted: the cells that hold a value are replaced.
fillna_inverted_mask(da, value) ==
    [da EXCEPT !.data = [p \in DOMAIN da.data |->
                            IF isnull(da.data[p]) THEN da.data[p] ELSE value]]

\* DataArray.fillna(value): a new array, the null cells replaced.
fillna(da, value) ==
    [da EXCEPT !.data = [p \in DOMAIN da.data |->
                            IF isnull(da.data[p]) THEN value ELSE da.data[p]]]

\* DataArray.count over every axis but dim, per label of dim.
count(da, dim, label) ==
    IF dim = "latitude"
    THEN Cardinality({lo \in da.longitude : ~isnull(da.data[<<label, lo>>])})
    ELSE Cardinality({la \in da.latitude : ~isnull(da.data[<<la, label>>])})

isel(da, lats, lons) ==
    [latitude |-> lats, longitude |-> lons,
     data |-> [p \in lats \X lons |-> da.data[p]]]

\* dropna with how="any": a label with one null cell is dropped.
dropna_any(da, dim) ==
    IF dim = "latitude"
    THEN isel(da, {la \in da.latitude :
                      count(da, dim, la) = Cardinality(da.longitude)},
              da.longitude)
    ELSE isel(da, da.latitude,
              {lo \in da.longitude :
                  count(da, dim, lo) = Cardinality(da.latitude)})

\* DataArray.dropna(dim, how="all"): a new array keeping the labels of dim
\* that count at least one non-null cell.
dropna(da, dim) ==
    IF dim = "latitude"
    THEN isel(da, {la \in da.latitude : count(da, dim, la) > 0}, da.longitude)
    ELSE isel(da, da.latitude, {lo \in da.longitude : count(da, dim, lo) > 0})

\* handle_nan_values with a final `else` that fills instead of raising.
handle_nan_values_else_fills(da, method, fill_value) ==
    IF method = "drop" THEN Ok(dropna(dropna(da, "latitude"), "longitude"))
    ELSE Ok(fillna(da, fill_value))

handle_nan_values(da, method, fill_value) ==
    IF method = "fill" THEN Ok(fillna(da, fill_value))
    ELSE IF method = "drop" THEN Ok(dropna(dropna(da, "latitude"), "longitude"))
    ELSE Raise("ValueError", method)

HandleNanValues ==
    /\ \E method \in Methods, fill_value \in FillValues :
        /\ nanCall' = [method |-> method, fill_value |-> fill_value]
        /\ nanOut' = handle_nan_values(nanIn, method, fill_value)
    /\ UNCHANGED <<nanIn, nanPrev, openVars, samplerVars, batchVars, gspVars,
                   workerVars>>

\* dataset = handle_nan_values(dataset, ...): the caller binds the result.
Rebind ==
    /\ nanOut.status = "ok"
    /\ Len(nanPrev) < MaxRebinds
    /\ nanPrev' = Append(nanPrev, [call |-> nanCall, input |-> nanIn,
                                   output |-> nanOut.value])
    /\ nanIn' = nanOut.value
    /\ nanOut' = NotCalled
    /\ UNCHANGED <<nanCall, openVars, samplerVars, batchVars, gspVars,
                   workerVars>>

(***************************************************************************)
(* GFSDataSampler                                                          *)
(***************************************************************************)

\* Initialization times lie on the 6-hourly slots 0..MaxInit, lead-time
\* steps on the 3-hourly slots 0..MaxStep.
MaxInit == 1
MaxStep == 1

TimeDomain == {360 * k : k \in 0..MaxInit}
StepDomain == {180 * k : k \in 0..MaxStep}
ChannelDomain == {"t", "dlwrf", "xyz"}

\* "2023-01-DDTHH:00:00" is <<DD, HH>>.
TimeStrings == {None} \cup {<<1, 6 * k>> : k \in 0..MaxInit}

\* pd.Timestamp(string), in minutes since 2023-01-01T00:00:00.
Timestamp(string) == (string[1] - 1) * 1440 + string[2] * 60

\* ocf_data_sampler.constants: per provider, the mean and the standard
\* deviation of each channel it holds statistics for.
NWP_MEANS == [gfs |-> [t |-> 280, dlwrf |-> 300],
              ecmwf |-> [t |-> 283, dlwrf |-> 310]]
NWP_STDS == [gfs |-> [t |-> 20, dlwrf |-> 100],
             ecmwf |-> [t |-> 18, dlwrf |-> 90]]

\* The cell of the dataset at an initialization time, a step and a channel
\* (the latitude and longitude axes are collapsed to one position).
DataValue(t0, step, channel) ==
    (t0 + step) \div 90 + (IF channel = "t" THEN 270 ELSE 250)

\* The axes of a DataArray that open_gfs returned, none of them empty; the
\* step axis runs from 0 in 3-hourly steps.
Datasets ==
    [init_time_utc : (SUBSET TimeDomain) \ {{}},
     step : {{s \in StepDomain : s <= last} : last \in StepDomain},
     channel : (SUBSET ChannelDomain) \ {{}}]

\* load_yaml_configuration validates the time window: a positive resolution
\* and interval_start_minutes <= interval_end_minutes.  provider names the
\* statistics to use, channels is the allow-list (empty when not given).
Configs ==
    {c \in [interval_start_minutes : {0, 90, 180},
            interval_end_minutes : {0, 90, 180},
            time_resolution_minutes : {90, 180},
            provider : {"gfs", "ecmwf"},
            channels : {<<>>, <<"t">>}] :
        c.interval_start_minutes <= c.interval_end_minutes}

Max(S) == CHOOSE x \in S : \A y \in S : y <= x

\* find_valid_time_periods returns the start of each valid period: some of
\* the dataset's initialization times, the periods in ascending order and
\* disjoint.  Of the step axis it reads the longest step alone: a forecast
\* that ends before interval_end_minutes gives no period.
find_valid_time_periods(ds, cfg) ==
    IF Max(ds.step) < cfg.interval_end_minutes THEN {<<>>}
    ELSE {SeqOfSet(S) : S \in SUBSET ds.init_time_utc}

\* The lower bound applied with > instead of >=.
FilterFromStrict(times, bound) ==
    SelectSeq(times, LAMBDA t : t > Timestamp(bound))

\* Boolean-mask row selection of a frame: the rows kept stay in order.
FilterFrom(times, bound) == SelectSeq(times, LAMBDA t : t >= Timestamp(bound))

FilterUpTo(times, bound) == SelectSeq(times, LAMBDA t : t <= Timestamp(bound))

\* `if len(self.valid_t0_times) <= 1: logging.warning(...)`
WarnsOn(times) == Len(times) <= 1

\* GFSDataSampler.__init__ from the search's result on: the value of
\* valid_t0_times and whether the warning was logged.
init_sampler(found, start, end) ==
    LET warning == WarnsOn(found)
        after_start == IF Len(start) > 0 THEN FilterFrom(found, start) ELSE found
        after_end == IF Len(end) > 0 THEN FilterUpTo(after_start, end)
                     ELSE after_start
    IN [valid_t0_times |-> after_end, warned |-> warning]

\* pd.date_range(start, end, freq): start, start + freq, ... up to end.
date_range(start, end, freq) ==
    [i \in 1..((end - start) \div freq + 1) |-> start + (i - 1) * freq]

KeyError(index, labels) == Raise("KeyError", [index |-> index, labels |-> labels])

\* DataArray.sel(init_time_utc=t0, step=[...]): exact label lookup, the
\* scalar first; a label that an index lacks is a KeyError.
sel(ds, t0, steps) ==
    IF t0 \notin ds.init_time_utc THEN KeyError("init_time_utc", {t0})
    ELSE IF Range(steps) \ ds.step # {}
    THEN KeyError("step", Range(steps) \ ds.step)
    ELSE Ok([init_time_utc |-> t0, step |-> steps, channel |-> ds.channel,
             data |-> [p \in Range(steps) \X ds.channel |->
                          DataValue(t0, p[1], p[2])]])

\* (dataset - NWP_MEANS["gfs"]) / NWP_STDS["gfs"]: xarray aligns the operands
\* on the channel labels they share (arithmetic_join="inner").  A quotient
\* n / d is kept as <<n, d>>.
_normalize_sample(slice) ==
    LET shared == (slice.channel \cap DOMAIN NWP_MEANS.gfs)
                      \cap DOMAIN NWP_STDS.gfs
    IN Ok([slice EXCEPT
              !.channel = shared,
              !.data = [p \in Range(slice.step) \X shared |->
                           <<slice.data[p] - NWP_MEANS.gfs[p[2]],
                             NWP_STDS.gfs[p[2]]>>]])

_get_sample(ds, cfg, t0) ==
    LET start_dt == t0 + cfg.interval_start_minutes
        end_dt == t0 + cfg.interval_end_minutes
        target_times == date_range(start_dt, end_dt, cfg.time_resolution_minutes)
        steps == [i \in 1..Len(target_times) |-> target_times[i] - t0]
        sliced_data == sel(ds, t0, steps)
    IN IF sliced_data.status = "error" THEN sliced_data
       ELSE _normalize_sample(sliced_data.value)

\* _get_sample up to the assignment of sliced_data.
_get_sample_sliced_data(ds, cfg, t0) ==
    LET start_dt == t0 + cfg.interval_start_minutes
        end_dt == t0 + cfg.interval_end_minutes
        target_times == date_range(start_dt, end_dt, cfg.time_resolution_minutes)
        steps == [i \in 1..Len(target_times) |-> target_times[i] - t0]
    IN sel(ds, t0, steps)

\* GFSDataSampler(dataset, config_filename, start_time, end_time)
Construct ==
    /\ pc = "new"
    /\ \E found \in find_valid_time_periods(dataset, config), start \in TimeStrings, end \in TimeStrings :
        /\ raw_t0_times' = found
        /\ start_time' = start
        /\ end_time' = end
        /\ valid_t0_times' = init_sampler(found, start, end).valid_t0_times
        /\ warned' = init_sampler(found, start, end).warned
    /\ pc' = "ready"
    /\ UNCHANGED <<dataset, config, request, sample, openVars, nanVars,
                   batchVars, gspVars,
                   workerVars>>

\* sampler[idx], idx in range(len(sampler))
GetItem ==
    /\ pc = "ready"
    /\ \E idx \in 0..(Len(valid_t0_times) - 1) :
        LET t0 == valid_t0_times[idx + 1]
        IN /\ request' = <<t0>>
           /\ sample' = _get_sample(dataset, config, t0)
    /\ UNCHANGED <<dataset, config, pc, raw_t0_times, start_time, end_time,
                   valid_t0_times, warned, openVars, nanVars, batchVars, gspVars,
                   workerVars>>

\* sampler._get_sample(t0) for a t0 of the caller's choosing
GetSample ==
    /\ pc = "ready"
    /\ \E t0 \in TimeDomain :
        /\ request' = <<t0>>
        /\ sample' = _get_sample(dataset, config, t0)
    /\ UNCHANGED <<dataset, config, pc, raw_t0_times, start_time, end_time,
                   valid_t0_times, warned, openVars, nanVars, batchVars, gspVars,
                   workerVars>>

(***************************************************************************)
(* process_and_save_batches (utils/batch_utils.py) and run_batch_samples   *)
(***************************************************************************)

\* The most batches one iteration of the DataLoader yields.
MaxBatches == 11

RECURSIVE Decimal(_)
\* The decimal digits of a natural number, most significant first.
Decimal(k) == IF k < 10 THEN <<k>> ELSE Append(Decimal(k \div 10), k % 10)

RECURSIVE ZeroPad(_, _)
\* Zeros on the left up to the width; a longer string is left as it is.
ZeroPad(digits, width) ==
    IF Len(digits) >= width THEN digits ELSE ZeroPad(<<0>> \o digits, width)

\* f"{batch_num}": the index without padding.
FormatUnpadded(index) == Decimal(index)

\* f"{batch_num:08d}", the digits of the name batch_<digits>.pt
Format08d(index) == ZeroPad(Decimal(index), 8)

\* iter(data_loader): every iteration of a DataLoader starts anew, whatever
\* an earlier iterator took.
NewIterator(taken) == 0

\* torch.save(batch, filename): a file of that name is replaced.
torch_save(dir, name, batch) ==
    {f \in dir : f.name # name} \cup {[name |-> name, batch |-> batch]}

\* `if num_batches and (batch_num + 1) >= num_batches`
ReachedLimit(limit, index) ==
    limit # None /\ limit[1] # 0 /\ index + 1 >= limit[1]

\* run_batch_samples: `for batch in data_loader: ... break`
VerifyFirstBatch ==
    /\ bpc = "start"
    /\ verify_taken' = IF loader_len > 0 THEN 1 ELSE 0
    /\ bpc' = "verified"
    /\ UNCHANGED <<loader_len, num_batches, yielded, batch_num, files,
                   openVars, nanVars, samplerVars, gspVars,
                   workerVars>>

\* process_and_save_batches up to `enumerate(data_loader)`
BeginSaving ==
    /\ bpc \in {"start", "verified"}
    /\ yielded' = NewIterator(verify_taken)
    /\ batch_num' = 0
    /\ bpc' = "saving"
    /\ UNCHANGED <<loader_len, num_batches, verify_taken, files,
                   openVars, nanVars, samplerVars, gspVars,
                   workerVars>>

\* One iteration of the saving loop.
SaveBatch ==
    /\ bpc = "saving"
    /\ yielded < loader_len
    /\ files' = torch_save(files, Format08d(batch_num), yielded)
    /\ yielded' = yielded + 1
    /\ batch_num' = batch_num + 1
    /\ bpc' = IF ReachedLimit(num_batches, batch_num) THEN "done" ELSE "saving"
    /\ UNCHANGED <<loader_len, num_batches, verify_taken,
                   openVars, nanVars, samplerVars, gspVars,
                   workerVars>>

\* The iterator is exhausted: the loop ends.
LoaderExhausted ==
    /\ bpc = "saving"
    /\ yielded >= loader_len
    /\ bpc' = "done"
    /\ UNCHANGED <<loader_len, num_batches, verify_taken, yielded, batch_num,
                   files, openVars, nanVars, samplerVars, gspVars,
                   workerVars>>

(***************************************************************************)
(* generate_combined_gsp.main (scripts/generate_combined_gsp.py)           *)
(***************************************************************************)

\* range(0, 319) has this many GSP ids.
GspIdCount == 319

\* The GSP ids whose answer is chosen one by one; all later ids get one
\* common answer.
MaxVaried == 2

\* range(1, 319): the loop before gsp_id 0 was included.
gsp_range_from_one == [i \in 1..(GspIdCount - 1) |-> i]

\* range(0, 319)
gsp_range == [i \in 1..GspIdCount |-> i - 1]

\* What the PVLive service can do with one request: fail, answer nothing,
\* answer a frame without rows, answer a frame with one row per datetime.
\* Datetimes are in minutes.
Answers == {[kind |-> "raise", rows |-> <<>>],
            [kind |-> "none", rows |-> <<>>],
            [kind |-> "frame", rows |-> <<>>],
            [kind |-> "frame", rows |-> <<30>>],
            [kind |-> "frame", rows |-> <<0, 30>>]}

\* The service's behaviour during one run.
Services == [varied : [0..(MaxVaried - 1) -> Answers], tail : Answers]

\* The service's answer for one entity.
Answer(service, entity_id) ==
    IF entity_id < MaxVaried THEN service.varied[entity_id] ELSE service.tail

\* PVLiveData.get_data_between: a failure of the request is caught and
\* answered with None.
get_data_between(service, entity_id) ==
    LET answer == Answer(service, entity_id)
    IN  IF answer.kind = "raise" THEN Ok([kind |-> "none", rows |-> <<>>])
        ELSE Ok(answer)

\* `df is None or not df.empty`
has_data_or(df) == df.kind = "none" \/ df.rows # <<>>

\* `df is not None and not df.empty`
has_data(df) == df.kind # "none" /\ df.rows # <<>>

\* df["gsp_id"] = gsp_id: the rows of the frame with the new column.
assign_gsp_id(df, id) ==
    [i \in 1..Len(df.rows) |-> [gsp_id |-> id, datetime |-> df.rows[i]]]

RECURSIVE concat(_)
\* pd.concat(frames, ignore_index=True)
concat(frames) ==
    IF frames = <<>> THEN <<>>
    ELSE IF Len(frames) = 1 THEN frames[1]
    ELSE LET half == Len(frames) \div 2
         IN  concat(SubSeq(frames, 1, half))
                 \o concat(SubSeq(frames, half + 1, Len(frames)))

\* rename, to_datetime, set_index, Dataset.from_dataframe: an array over the
\* gsp_id and datetime_gmt labels that occur, with the rows' cells filled.
from_dataframe(df_pv) ==
    [gsp_id |-> {df_pv[i].gsp_id : i \in DOMAIN df_pv},
     datetime_gmt |-> {df_pv[i].datetime : i \in DOMAIN df_pv},
     filled |-> {<<df_pv[i].gsp_id, df_pv[i].datetime>> : i \in DOMAIN df_pv}]

\* main up to the loop.
StartMain ==
    /\ gpc = "start"
    /\ all_dataframes' = <<>>
    /\ gsp_pos' = 1
    /\ gpc' = "loop"
    /\ UNCHANGED <<pvlive, queried, warnings, error_logged, zarr_store,
                   openVars, nanVars, samplerVars, batchVars,
                   workerVars>>

\* One iteration of `for gsp_id in range(0, 319)`.
FetchGsp ==
    /\ gpc = "loop"
    /\ gsp_pos <= Len(gsp_range)
    /\ LET gsp_id == gsp_range[gsp_pos]
           result == get_data_between(pvlive, gsp_id)
       IN  /\ queried' = Append(queried, gsp_id)
           /\ IF result.status # "ok"
              THEN /\ gpc' = "aborted"
                   /\ UNCHANGED <<gsp_pos, all_dataframes, warnings>>
              ELSE /\ gpc' = "loop"
                   /\ gsp_pos' = gsp_pos + 1
                   /\ IF has_data(result.value)
                      THEN /\ all_dataframes' =
                                Append(all_dataframes,
                                       assign_gsp_id(result.value, gsp_id))
                           /\ UNCHANGED warnings
                      ELSE /\ warnings' = warnings \cup {gsp_id}
                           /\ UNCHANGED all_dataframes
    /\ UNCHANGED <<pvlive, error_logged, zarr_store,
                   openVars, nanVars, samplerVars, batchVars,
                   workerVars>>

\* main after the loop: the error and return, or the store written.
WriteStore ==
    /\ gpc = "loop"
    /\ gsp_pos > Len(gsp_range)
    /\ IF all_dataframes # <<>>
       THEN /\ zarr_store' = Ok(from_dataframe(concat(all_dataframes)))
            /\ UNCHANGED error_logged
       ELSE /\ error_logged' = TRUE
            /\ UNCHANGED zarr_store
    /\ gpc' = "done"
    /\ UNCHANGED <<pvlive, gsp_pos, queried, all_dataframes, warnings,
                   openVars, nanVars, samplerVars, batchVars,
                   workerVars>>

(***************************************************************************)
(* sampler[idx] from the DataLoader's workers                              *)
(***************************************************************************)

\* "num_workers": 2 in run_batch_samples' default DataLoader arguments.
NumWorkers == 2

Workers == 1..NumWorkers

\* One sliced_data for all calls, as an attribute of the sampler would be.
SharedFrame(w) == 1

\* The frame of a worker's call: sliced_data is a local variable of
\* _get_sample, so every call has its own.
FrameOf(w) == w

\* __getitem__ and _get_sample down to `sliced_data = self.dataset.sel(...)`;
\* a KeyError ends the call.
WorkerGetItem(w) ==
    /\ pc = "ready"
    /\ wpc[w] = "idle"
    /\ \E idx \in 0..(Len(valid_t0_times) - 1) :
        LET t0 == valid_t0_times[idx + 1]
            sliced_data == _get_sample_sliced_data(dataset, config, t0)
        IN  /\ widx' = [widx EXCEPT ![w] = idx]
            /\ IF sliced_data.status = "error"
               THEN /\ returned' = returned \cup {<<idx, sliced_data>>}
                    /\ UNCHANGED <<wpc, locals>>
               ELSE /\ locals' = [locals EXCEPT ![FrameOf(w)] = sliced_data]
                    /\ wpc' = [wpc EXCEPT ![w] = "sliced"]
                    /\ UNCHANGED returned
    /\ UNCHANGED <<built, openVars, nanVars, samplerVars, batchVars, gspVars>>

\* `return self._normalize_sample(sliced_data)`
WorkerNormalize(w) ==
    /\ wpc[w] = "sliced"
    /\ returned' = returned \cup
                      {<<widx[w], _normalize_sample(locals[FrameOf(w)].value)>>}
    /\ wpc' = [wpc EXCEPT ![w] = "idle"]
    /\ UNCHANGED <<built, widx, locals, openVars, nanVars, samplerVars,
                   batchVars, gspVars>>

(***************************************************************************)
(* Specifications                                                          *)
(***************************************************************************)

OpenIdle == /\ source = [readable |-> FALSE, dims |-> <<>>]
            /\ opened = NotCalled

NanIdle == /\ nanIn = [latitude |-> {}, longitude |-> {}, data |-> <<>>]
           /\ nanCall = [method |-> "", fill_value |-> NaN]
           /\ nanOut = NotCalled
           /\ nanPrev = <<>>

SamplerIdle == /\ dataset = [init_time_utc |-> {}, step |-> {}, channel |-> {}]
               /\ config = [interval_start_minutes |-> 0,
                            interval_end_minutes |-> 0,
                            time_resolution_minutes |-> 180,
                            provider |-> "gfs",
                            channels |-> <<>>]
               /\ pc = "idle"
               /\ raw_t0_times = <<>>
               /\ start_time = None
               /\ end_time = None
               /\ valid_t0_times = <<>>
               /\ warned = FALSE
               /\ request = <<>>
               /\ sample = NotCalled

BatchIdle == /\ loader_len = 0
             /\ num_batches = None
             /\ bpc = "idle"
             /\ verify_taken = 0
             /\ yielded = 0
             /\ batch_num = 0
             /\ files = {}

GspIdle == /\ pvlive = [varied |-> <<>>, tail |-> [kind |-> "none", rows |-> <<>>]]
           /\ gpc = "idle"
           /\ gsp_pos = 0
           /\ queried = <<>>
           /\ all_dataframes = <<>>
           /\ warnings = {}
           /\ error_logged = FALSE
           /\ zarr_store = NotCalled

WorkersIdle == /\ built = NotCalled
               /\ wpc = [w \in Workers |-> "none"]
               /\ widx = [w \in Workers |-> 0]
               /\ locals = [w \in Workers |-> NotCalled]
               /\ returned = {}

\* open_gfs on every store.
InitOpen ==
    OpenIdle /\ NanIdle /\ SamplerIdle /\ BatchIdle /\ GspIdle /\ WorkersIdle

NextOpen == OpenGfs

SpecOpen == InitOpen /\ [][NextOpen]_vars

\* handle_nan_values on every array, its result bound and handled again.
InitNan ==
    /\ OpenIdle
    /\ SamplerIdle
    /\ BatchIdle
    /\ GspIdle
    /\ WorkersIdle
    /\ nanIn \in DataArrays
    /\ nanCall = [method |-> "", fill_value |-> NaN]
    /\ nanOut = NotCalled
    /\ nanPrev = <<>>

NextNan == HandleNanValues \/ Rebind

SpecNan == InitNan /\ [][NextNan]_vars

\* A sampler over every dataset and configuration.
Init ==
    /\ OpenIdle
    /\ NanIdle
    /\ BatchIdle
    /\ GspIdle
    /\ WorkersIdle
    /\ dataset \in Datasets
    /\ config \in Configs
    /\ pc = "new"
    /\ raw_t0_times = <<>>
    /\ start_time = None
    /\ end_time = None
    /\ valid_t0_times = <<>>
    /\ warned = FALSE
    /\ request = <<>>
    /\ sample = NotCalled

Next == Construct \/ GetItem \/ GetSample

Spec == Init /\ [][Next]_vars

\* Saving the batches of every loader under every num_batches, with or
\* without the verification pass of run_batch_samples before.
InitBatch ==
    /\ OpenIdle
    /\ NanIdle
    /\ SamplerIdle
    /\ GspIdle
    /\ WorkersIdle
    /\ loader_len \in 0..MaxBatches
    /\ num_batches \in {None} \cup {<<n>> : n \in 0..(MaxBatches + 1)}
    /\ bpc = "start"
    /\ verify_taken = 0
    /\ yielded = 0
    /\ batch_num = 0
    /\ files = {}

NextBatch == VerifyFirstBatch \/ BeginSaving \/ SaveBatch \/ LoaderExhausted

SpecBatch == InitBatch /\ [][NextBatch]_vars

\* One run of generate_combined_gsp.main against every service.
InitGsp ==
    /\ OpenIdle
    /\ NanIdle
    /\ SamplerIdle
    /\ BatchIdle
    /\ WorkersIdle
    /\ pvlive \in Services
    /\ gpc = "start"
    /\ gsp_pos = 0
    /\ queried = <<>>
    /\ all_dataframes = <<>>
    /\ warnings = {}
    /\ error_logged = FALSE
    /\ zarr_store = NotCalled

NextGsp == StartMain \/ FetchGsp \/ WriteStore

SpecGsp == InitGsp /\ [][NextGsp]_vars

\* A sampler as its construction left it, and the workers of the DataLoader
\* about to call it.  The configuration's provider and channel list, which no
\* access reads, are held fixed.
InitWorkers ==
    /\ OpenIdle
    /\ NanIdle
    /\ BatchIdle
    /\ GspIdle
    /\ dataset \in Datasets
    /\ config \in {cfg \in Configs : cfg.provider = "gfs" /\ cfg.channels = <<>>}
    /\ pc = "ready"
    /\ raw_t0_times \in find_valid_time_periods(dataset, config)
    /\ start_time \in TimeStrings
    /\ end_time \in TimeStrings
    /\ valid_t0_times =
          init_sampler(raw_t0_times, start_time, end_time).valid_t0_times
    /\ warned = init_sampler(raw_t0_times, start_time, end_time).warned
    /\ request = <<>>
    /\ sample = NotCalled
    /\ built = Ok([dataset |-> dataset, config |-> config,
                   valid_t0_times |-> valid_t0_times,
                   len |-> Len(valid_t0_times)])
    /\ wpc = [w \in Workers |-> "idle"]
    /\ widx = [w \in Workers |-> 0]
    /\ locals = [w \in Workers |-> NotCalled]
    /\ returned = {}

NextWorkers == \E w \in Workers : WorkerGetItem(w) \/ WorkerNormalize(w)

SpecWorkers == InitWorkers /\ [][NextWorkers]_vars

(***************************************************************************)
(* Claims                                                                  *)
(***************************************************************************)

\* The dimensions of the array open_gfs works on once "channel" is added
\* and init_time is renamed.
AxesAfterRenaming ==
    {"channel"} \cup {IF d = "init_time" THEN "init_time_utc" ELSE d :
                         d \in Range(source.dims)}

\* C9: every array open_gfs returns has the axes (init_time_utc, step,
\* channel, latitude, longitude) in exactly this order, whichever of
\* init_time and init_time_utc the store used; when one of these axes is
\* absent after the renaming, open_gfs raises and returns nothing.
OpenGfsAxesCanonical ==
    opened.status # "none" =>
        /\ opened.status = "ok" =>
              opened.value = <<"init_time_utc", "step", "channel",
                               "latitude", "longitude">>
        /\ (\E d \in {"init_time_utc", "step", "channel", "latitude",
                      "longitude"} : d \notin AxesAfterRenaming)
              => opened.status = "error"

\* C9's case: a store naming the axis init_time, in another order, opened.
OpenGfsRenamedAndReordered ==
    /\ opened.status = "ok"
    /\ "init_time" \in Range(source.dims)
    /\ source.dims[1] = "longitude"

\* C6: handle_nan_values with a method other than "fill" and "drop" raises
\* ValueError, so it returns no array, and the array handed in stays as it
\* was.
HandleNanRejectsOtherMethods ==
    /\ [](nanOut.status # "none" /\ nanCall.method \notin {"fill", "drop"}
            => nanOut.status = "error" /\ nanOut.kind = "ValueError")
    /\ [][nanOut'.status = "error" => nanIn' = nanIn]_vars

\* C6's case: the method "mean" was asked for and the call raised.
HandleNanRejectedMean ==
    /\ nanCall.method = "mean"
    /\ nanOut.status = "error"
    /\ \E p \in DOMAIN nanIn.data : isnull(nanIn.data[p])

\* The call before the last one, when its result was bound and handled again.
PrevCall == nanPrev[Len(nanPrev)]

NoCellMissing(da) == \A p \in DOMAIN da.data : ~isnull(da.data[p])

FilledTwice ==
    /\ nanPrev # <<>>
    /\ nanOut.status = "ok"
    /\ nanCall.method = "fill"
    /\ PrevCall.call = nanCall

\* C7 as stated: for every array and every fill value v, fill(v) twice gives
\* what fill(v) gives once, and after one fill(v) no cell is missing.
FillIdempotentAndComplete ==
    /\ FilledTwice => nanOut.value = PrevCall.output
    /\ nanOut.status = "ok" /\ nanCall.method = "fill"
          => NoCellMissing(nanOut.value)

\* C7 amended: for every array and every fill value v, fill(v) twice gives
\* what fill(v) gives once; after one fill(v) no cell is missing when v is
\* not itself NaN, and the cells missing before are exactly those missing
\* after when it is.
FillIdempotentAndCompleteUnlessNaN ==
    /\ FilledTwice => nanOut.value = PrevCall.output
    /\ nanOut.status = "ok" /\ nanCall.method = "fill"
          => IF isnull(nanCall.fill_value)
             THEN nanOut.value = nanIn
             ELSE NoCellMissing(nanOut.value)

\* C7's case: an array with a missing cell was filled with 1, then the
\* result was filled with 1 again.
FilledTwiceWithOne ==
    /\ FilledTwice
    /\ nanCall.fill_value = <<1>>
    /\ \E p \in DOMAIN PrevCall.input.data : isnull(PrevCall.input.data[p])

\* A latitude row (a longitude column) whose cells are all missing.
RowAllMissing(da, la) == \A lo \in da.longitude : isnull(da.data[<<la, lo>>])

ColumnAllMissing(da, lo) == \A la \in da.latitude : isnull(da.data[<<la, lo>>])

Dropped == nanOut.status = "ok" /\ nanCall.method = "drop"

\* C8: "drop" removes exactly the latitude rows and the longitude columns of
\* the array handed in that are missing throughout, keeps every other row and
\* column with its cells as they were, leaves no row and no column missing
\* throughout, and gives the same array when longitudes are dropped first.
DropRemovesExactlyAllMissing ==
    Dropped =>
        LET in == nanIn
            out == nanOut.value
        IN /\ out.latitude = {la \in in.latitude : ~RowAllMissing(in, la)}
           /\ out.longitude = {lo \in in.longitude : ~ColumnAllMissing(in, lo)}
           /\ DOMAIN out.data = out.latitude \X out.longitude
           /\ \A p \in DOMAIN out.data : out.data[p] = in.data[p]
           /\ \A la \in out.latitude : ~RowAllMissing(out, la)
           /\ \A lo \in out.longitude : ~ColumnAllMissing(out, lo)
           /\ out = dropna(dropna(in, "longitude"), "latitude")

\* C8's case: a row and a column were dropped, and a row with a missing cell
\* was kept.
DroppedRowAndColumn ==
    /\ Dropped
    /\ nanOut.value.latitude # nanIn.latitude
    /\ nanOut.value.longitude # nanIn.longitude
    /\ \E la \in nanOut.value.latitude, lo \in nanIn.longitude :
          isnull(nanIn.data[<<la, lo>>])

\* The bounds __init__ was given, as sets of admitted timestamps.
Admitted(t) ==
    /\ start_time # None => t >= (start_time[1] - 1) * 1440 + start_time[2] * 60
    /\ end_time # None => t <= (end_time[1] - 1) * 1440 + end_time[2] * 60

\* C4: after construction valid_t0_times holds exactly the timestamps of the
\* valid-period search that lie within [start_time, end_time], both bounds
\* included and an absent bound not restricting, in ascending order and
\* without duplicates.
ValidTimesAreTheSearchResultWithinBounds ==
    pc = "ready" =>
        /\ Range(valid_t0_times) = {t \in Range(raw_t0_times) : Admitted(t)}
        /\ \A i \in 1..(Len(valid_t0_times) - 1) :
              valid_t0_times[i] < valid_t0_times[i + 1]

\* C4's case: both bounds given, a timestamp equal to a bound kept and
\* another one filtered out.
BoundKeptOtherFilteredOut ==
    /\ pc = "ready"
    /\ start_time # None
    /\ end_time # None
    /\ Timestamp(start_time) \in Range(valid_t0_times)
    /\ Len(valid_t0_times) < Len(raw_t0_times)

\* C5 as stated: the warning is logged exactly when the valid-time sequence
\* the sampler ends up with, after the start_time/end_time filtering, has at
\* most one element; construction completes either way.
WarnedIffFinalSequenceDegenerate ==
    pc = "ready" => (warned <=> Len(valid_t0_times) <= 1)

\* The lead-time offsets of the theoretical grid: interval_start_minutes,
\* interval_start_minutes + time_resolution_minutes, ... up to
\* interval_end_minutes.
TargetOffsets ==
    {config.interval_start_minutes + k * config.time_resolution_minutes :
        k \in 0..((config.interval_end_minutes - config.interval_start_minutes)
                      \div config.time_resolution_minutes)}

Requested == request # <<>>

\* C1 as stated: for every t0 of valid_t0_times the sample is returned, its
\* step axis is not empty, strictly increasing and within the theoretical
\* grid.
ValidT0GivesNonEmptyGridSlice ==
    Requested /\ request[1] \in Range(valid_t0_times) =>
        /\ sample.status = "ok"
        /\ Len(sample.value.step) > 0
        /\ \A i \in 1..(Len(sample.value.step) - 1) :
              sample.value.step[i] < sample.value.step[i + 1]
        /\ Range(sample.value.step) \subseteq TargetOffsets

\* C2 as stated: when none of the target offsets is on the dataset's step
\* axis, the extraction raises an error that names t0.
NoOverlapRaisesNamingT0 ==
    Requested /\ TargetOffsets \cap dataset.step = {} =>
        /\ sample.status = "error"
        /\ sample.what.index = "init_time_utc"
        /\ request[1] \in sample.what.labels

\* C3 as stated: when some but not all target offsets are on the step axis
\* (and t0 is an initialization time of the dataset), the sample is returned
\* and its step axis is the target offsets the dataset holds.
PartialOverlapGivesIntersection ==
    /\ Requested
    /\ request[1] \in dataset.init_time_utc
    /\ TargetOffsets \cap dataset.step # {}
    /\ ~(TargetOffsets \subseteq dataset.step)
    => /\ sample.status = "ok"
       /\ Range(sample.value.step) = TargetOffsets \cap dataset.step

\* C10 as stated: a slice with a channel that the statistics tables lack is
\* never normalized into a returned sample.
UnknownChannelNeverReturned ==
    /\ Requested
    /\ \E c \in dataset.channel :
          c \notin DOMAIN NWP_MEANS.gfs \/ c \notin DOMAIN NWP_STDS.gfs
    => sample.status = "error"

\* C11 as stated: the returned sample keeps the step axis and the whole
\* channel list of the slice, and each of its cells is (value - mean) / std
\* with the mean and std of the channel in the tables of the provider the
\* configuration names.
NormalizedWithConfiguredProvider ==
    Requested /\ sample.status = "ok" =>
        /\ Range(sample.value.step) = TargetOffsets
        /\ sample.value.channel = dataset.channel
        /\ DOMAIN sample.value.data = TargetOffsets \X dataset.channel
        /\ \A p \in TargetOffsets \X dataset.channel :
              sample.value.data[p] =
                  <<DataValue(request[1], p[1], p[2])
                        - NWP_MEANS[config.provider][p[2]],
                    NWP_STDS[config.provider][p[2]]>>

\* C12 as stated: with an allow-list in the configuration the sample holds
\* exactly the allow-list's channels, without one it holds every channel of
\* the dataset (here for datasets whose channels all have statistics and
\* hold the allow-list).
SampleChannelsAreAllowList ==
    /\ Requested
    /\ sample.status = "ok"
    /\ dataset.channel \subseteq DOMAIN NWP_MEANS.gfs \cap DOMAIN NWP_STDS.gfs
    /\ Range(config.channels) \subseteq dataset.channel
    => sample.value.channel = IF config.channels # <<>>
                              THEN Range(config.channels)
                              ELSE dataset.channel

RECURSIVE DecimalValue(_)
\* The number a string of decimal digits denotes.
DecimalValue(digits) ==
    IF digits = <<>> THEN 0
    ELSE 10 * DecimalValue(SubSeq(digits, 1, Len(digits) - 1)) + digits[Len(digits)]

\* C13: while and after process_and_save_batches runs, the k-th batch its
\* iteration of the loader yielded (k from 0) is in exactly one file, whose name
\* carries k as 8 decimal digits padded with zeros (00000010 for index 10); the
\* indices used are 0, 1, 2, ... without gap or repeat, so no two batches of
\* the run share a file.
BatchFilesNamedByPaddedIndex ==
    bpc \in {"saving", "done"} =>
        /\ \A f \in files :
              /\ Len(f.name) = 8
              /\ \A i \in 1..8 : f.name[i] \in 0..9
              /\ DecimalValue(f.name) = f.batch
              /\ f.batch = 10 => f.name = <<0, 0, 0, 0, 0, 0, 1, 0>>
        /\ {f.batch : f \in files} = 0..(yielded - 1)
        /\ Cardinality(files) = yielded

\* C13 witness: after the verification pass the eleventh batch has been saved
\* as 00000010.
EleventhBatchSavedAs00000010 ==
    /\ verify_taken = 1
    /\ \E f \in files : f.batch = 10 /\ f.name = <<0, 0, 0, 0, 0, 0, 1, 0>>

\* C14 as stated: for a loader of m batches and num_batches = n, any
\* non-negative integer, exactly the files of batches 0..min(n, m)-1 are
\* written and iteration stops after the n-th batch; all m are written when
\* num_batches is not given; the verification pass changes none of this.
WritesMinOfLimitAndLoader ==
    bpc = "done" =>
        LET expected == IF num_batches = None THEN loader_len
                        ELSE IF num_batches[1] < loader_len THEN num_batches[1]
                        ELSE loader_len
        IN  /\ files = {[name |-> Format08d(k), batch |-> k] : k \in 0..(expected - 1)}
            /\ yielded = expected

\* The ids asked for so far whose request failed.
FailedIds == {id \in Range(queried) : Answer(pvlive, id).kind = "raise"}

\* The ids asked for so far whose request was answered with rows.
AnsweredIds ==
    {id \in Range(queried) :
        Answer(pvlive, id).kind = "frame" /\ Answer(pvlive, id).rows # <<>>}

\* The gsp_id values in the frames collected so far.
CollectedIds ==
    UNION {{all_dataframes[i][j].gsp_id : j \in DOMAIN all_dataframes[i]} :
              i \in DOMAIN all_dataframes}

\* The cells the rows answered so far fill.
AnsweredCells ==
    UNION {{<<id, Answer(pvlive, id).rows[j]>> :
               j \in DOMAIN Answer(pvlive, id).rows} : id \in AnsweredIds}

Tagged(id) ==
    [j \in DOMAIN Answer(pvlive, id).rows |->
        [gsp_id |-> id, datetime |-> Answer(pvlive, id).rows[j]]]

\* get_data_between returned None or a frame without rows.
AbsentOrEmpty(id) ==
    LET df == get_data_between(pvlive, id).value
    IN  df.kind = "none" \/ df.rows = <<>>

\* The ids asked for so far that were answered with rows, in query order.
AnsweredInOrder == SelectSeq(queried, LAMBDA id : ~AbsentOrEmpty(id))

\* C17: main asks for the ids 0, 1, ..., 318 in this order, each once; an id
\* whose response is absent or empty gets a warning and no rows, every other
\* id gets no warning and all its rows with its own gsp_id; when no id gave
\* data main ends with the error logged and no store written, and otherwise
\* it writes the store of exactly the rows collected.
QueriesEachGspOnceAscending ==
    LET answered == AnsweredInOrder
    IN  /\ Len(queried) <= 319
        /\ \A i \in DOMAIN queried : queried[i] = i - 1
        /\ warnings = {id \in Range(queried) : AbsentOrEmpty(id)}
        /\ all_dataframes = [i \in DOMAIN answered |-> Tagged(answered[i])]
        /\ gpc # "done" => ~error_logged /\ zarr_store = NotCalled
        /\ gpc = "done" =>
              /\ Len(queried) = 319
              /\ IF answered = <<>>
                 THEN error_logged /\ zarr_store = NotCalled
                 ELSE /\ ~error_logged
                      /\ zarr_store.status = "ok"
                      /\ zarr_store.value.filled = AnsweredCells

\* C17 witness: main is done after an absent, an empty and an answered
\* response, with the store written.
RunWithAbsentEmptyAndAnswered ==
    /\ gpc = "done"
    /\ Len(queried) = 319
    /\ zarr_store.status = "ok"
    /\ \E a, e, g \in Range(queried) :
          /\ get_data_between(pvlive, a).value.kind = "none"
          /\ get_data_between(pvlive, e).value = [kind |-> "frame", rows |-> <<>>]
          /\ g \in zarr_store.value.gsp_id
          /\ {a, e} \subseteq warnings

\* C16: after construction, whatever accesses the workers have made or are
\* in the middle of, the sampler's dataset, configuration and valid-time
\* sequence are what construction left, len(sampler) is what it was, and
\* every result sampler[i] has given is the one result of i on the sampler
\* as constructed.
AccessesLeaveSamplerUnchanged ==
    built.status = "ok" =>
        /\ dataset = built.value.dataset
        /\ config = built.value.config
        /\ valid_t0_times = built.value.valid_t0_times
        /\ Len(valid_t0_times) = built.value.len
        /\ \A r \in returned :
              r[2] = _get_sample(built.value.dataset, built.value.config,
                                 built.value.valid_t0_times[r[1] + 1])

\* C16 witness: both workers are between slicing and normalizing, for
\* different indices, after calls for both indices have returned samples.
WorkersInterleavedOnDifferentIndices ==
    /\ built.status = "ok"
    /\ \A w \in Workers : wpc[w] = "sliced"
    /\ widx[1] # widx[2]
    /\ \A w \in Workers : \E r \in returned : r[1] = widx[w] /\ r[2].status = "ok"
================================================================================
